---- MODULE Spec2Model ----
(***************************************************************************)
(* Model of the Rythmiq-One document normalisation worker.                 *)
(*                                                                         *)
(*   Spec          the single-shot worker: main() and process_job()        *)
(*                 (src/worker/worker.py)                                  *)
(*   SpecCompress  adapt_to_schema / compress_to_size applied to bounded   *)
(*                 inputs (src/worker/processors/schema.py)                *)
(*   SpecEnhance   should_skip_enhancement / enhance_image applied to      *)
(*                 bounded inputs (src/worker/processors/enhancement.py)   *)
(*   SpecMetrics   one thread using MetricsCollector                       *)
(*                 (src/worker/metrics.py)                                 *)
(*   SpecThreads   threads constructing MetricsCollectors concurrently     *)
(*   SpecInstrumented  process_job_instrumented                            *)
(*                 (src/worker/worker_instrumented.py)                     *)
(*   SpecApi       the job API around one job: create_job, the Camber      *)
(*                 webhook and transition_job_state (src/app/api)          *)
(*   SpecApiFair   SpecApi with every request handler running to its end   *)
(*                                                                         *)
(* Scores and confidences are floats in [0,1] in the source; they are      *)
(* modelled in thousandths (0..1000), so 0.75 is 750 and 0.10 is 100.      *)
(* Encoded image bytes are modelled by what the pipeline observes of them: *)
(* their origin, whether they decode, and their length.                    *)
(***************************************************************************)
EXTENDS Integers, Sequences, FiniteSets, TLC

VARIABLES
    \* ---- SpecCompress ----
    cz_input,       \* arguments of adapt_to_schema, "none" outside SpecCompress
    cz_result,      \* its outcome, "none" until applied
    \* ---- SpecEnhance ----
    en_input,       \* arguments of enhance_image, "none" outside SpecEnhance
    en_result,      \* its outcome, "none" until applied
    \* ---- Spec (worker main / process_job) ----
    pc,             \* position in main()/process_job()
    stdin,          \* what is on STDIN
    job_id,         \* main()'s job_id local
    stdout,         \* sequence of envelopes printed
    exit_code,      \* "none" | 0 | "exception" (exception escaped main)
    raised,         \* exception in flight inside main()'s try block, or "none"
    warnings,       \* process_job's warnings list
    stages,         \* stages started so far, in order
    raw_data,
    quality_score,
    pre_ocr,        \* [result, warning, failed]
    is_readable,
    enhanced,       \* EnhancementResult
    post_ocr,       \* [result, warning, failed]
    rollback,       \* [use_original, ocr_result, ocr_warning]
    final,          \* [image_data, ocr_confidence]
    schema_input,   \* the data handed to adapt_to_schema
    schema_result,
    uploads,        \* artifacts written to storage
    \* ---- SpecMetrics / SpecThreads / SpecInstrumented (metrics.py) ----
    execution_count, \* the module global _execution_count
    collector,      \* the live MetricsCollector
    records,        \* ProcessingMetrics records finalize() has returned
    finalize_log,   \* outcome of each finalize() call on the live collector
    history,        \* tags of the collectors constructed, with the resets
    th,             \* threads constructing collectors: [pc, tmp, temperature]
    ins,            \* locals of process_job_instrumented
    \* ---- SpecApi (src/app/api) ----
    job_row,        \* the job's row of table jobs
    status_log,     \* every value the row's status column has held, in order
    documents,      \* writes made to the job's row of table documents
    zip_exists,     \* the output ZIP is in storage
    camber,         \* "idle" | "submitted": Camber has the job
    req             \* the requests in progress: locals of each handler

czVars == <<cz_input, cz_result>>
enVars == <<en_input, en_result>>
mainVars == <<pc, stdin, job_id, stdout, exit_code, raised, warnings, stages,
              raw_data, quality_score, pre_ocr, is_readable, enhanced,
              post_ocr, rollback, final, schema_input, schema_result, uploads>>
mtVars == <<execution_count, collector, records, finalize_log, history, th, ins>>
apiVars == <<job_row, status_log, documents, zip_exists, camber, req>>
vars == <<czVars, enVars, mainVars, mtVars, apiVars>>

None == [none |-> TRUE]

\* No exception in flight.
NoRaise == [kind |-> "none", code |-> "", stage |-> "", retryable |-> FALSE,
            echo |-> FALSE]

-----------------------------------------------------------------------------
(* Errors: src/worker/errors.py                                            *)

RETRYABLE_CODES == {"FETCH_TIMEOUT", "OCR_TIMEOUT", "UPLOAD_TIMEOUT", "UPLOAD_FAILED"}

\* WorkerError(code, stage, message): retryable is derived from the code.
WorkerError(code, stage) ==
    [code |-> code, stage |-> stage, retryable |-> code \in RETRYABLE_CODES]

-----------------------------------------------------------------------------
(* Schema adaptation: src/worker/processors/schema.py                      *)

MIN_JPEG_QUALITY == 20

MAX_COMPRESSION_ITERATIONS_Raised == 20 + 5
MAX_COMPRESSION_ITERATIONS == 20

\* An image as the encoder sees it: the length of its JPEG encoding as a
\* function of the quality level (base + slope*q, plus an optional bump at
\* one level that makes the length non-monotone), and a PNG length that
\* does not depend on the quality level.
EncodedLen(img, format, quality) ==
    IF format = "png"
    THEN img.base
    ELSE img.base + img.slope * quality
         + (IF quality = img.bumpAt THEN img.bump ELSE 0)

\* The DPI metadata of the encoded bytes, as an integer DPI read back from
\* them (int(pil_img.info['dpi'][0])).  JPEG stores the DPI itself in its
\* header.  PNG stores pixels per metre, int(dpi / 0.0254 + 0.5), which
\* reads back as that count times 0.0254.
StoredDpi(dpi, format) ==
    IF format = "png"
    THEN LET pixels_per_metre == (dpi * 10000 + 127) \div 254
         IN  (pixels_per_metre * 254) \div 10000
    ELSE dpi

\* encode_with_dpi: the encoded bytes carry DPI metadata and have a length.
encode_with_dpi(img, dpi, format, quality) ==
    [len |-> EncodedLen(img, format, quality), dpi |-> StoredDpi(dpi, format),
     format |-> IF format = "png" THEN "png" ELSE "jpeg", quality |-> quality]

\* The test `len(data) <= max_bytes` of compress_to_size.
Fits_Strict(data, max_bytes) == data.len < max_bytes
Fits(data, max_bytes) == data.len <= max_bytes

\* The for-loop of compress_to_size: iteration i of at most
\* MAX_COMPRESSION_ITERATIONS; `encodes` counts encode_with_dpi calls.
RECURSIVE binary_search(_, _, _, _, _, _, _, _, _, _)
binary_search(img, dpi, format, max_bytes, low_quality, high_quality, best_data, best_quality, i, encodes) ==
    IF i >= MAX_COMPRESSION_ITERATIONS \/ low_quality > high_quality
    THEN [best_data |-> best_data, best_quality |-> best_quality,
          encodes |-> encodes, iterations |-> i]
    ELSE LET mid_quality == (low_quality + high_quality) \div 2
             data == encode_with_dpi(img, dpi, format, mid_quality)
         IN  IF Fits(data, max_bytes)
             THEN binary_search(img, dpi, format, max_bytes,
                                mid_quality + 1, high_quality,
                                data, mid_quality, i + 1, encodes + 1)
             ELSE binary_search(img, dpi, format, max_bytes,
                                low_quality, mid_quality - 1,
                                best_data, best_quality, i + 1, encodes + 1)

compress_to_size(img, dpi, max_kb, format, initial_quality) ==
    LET max_bytes == max_kb * 1024
        first == encode_with_dpi(img, dpi, format, initial_quality)
    IN  IF Fits(first, max_bytes)
        THEN [ok |-> TRUE, data |-> first, quality |-> initial_quality,
              encodes |-> 1]
        ELSE LET s == binary_search(img, dpi, format, max_bytes,
                                    MIN_JPEG_QUALITY, initial_quality,
                                    first, initial_quality, 0, 1)
             IN  IF ~Fits(s.best_data, max_bytes)
                 THEN LET last == encode_with_dpi(img, dpi, format, MIN_JPEG_QUALITY)
                      IN  IF ~Fits(last, max_bytes)
                          THEN [ok |-> FALSE,
                                error |-> WorkerError("SIZE_EXCEEDED", "schema"),
                                encodes |-> s.encodes + 1]
                          ELSE [ok |-> TRUE, data |-> last,
                                quality |-> MIN_JPEG_QUALITY,
                                encodes |-> s.encodes + 1]
                 ELSE [ok |-> TRUE, data |-> s.best_data,
                       quality |-> s.best_quality, encodes |-> s.encodes]

\* resize_exact: cv2.resize yields an array of some shape (resized.w x
\* resized.h, status "ok") or raises cv2.error; a shape other than the
\* target is RESIZE_FAILED.
resize_exact(resized, target_width, target_height) ==
    IF resized.status = "cv2_error"
    THEN [ok |-> FALSE, error |-> WorkerError("RESIZE_FAILED", "schema")]
    ELSE IF resized.w # target_width \/ resized.h # target_height
         THEN [ok |-> FALSE, error |-> WorkerError("RESIZE_FAILED", "schema")]
         ELSE [ok |-> TRUE, w |-> resized.w, h |-> resized.h]

\* adapt_to_schema(data, schema, ...): decode, resize, verify, compress.
\* `resized` is what cv2.resize produces for this image and `img` is the
\* encoder's view of the resized pixels.  WorkerErrors pass through; any
\* other exception becomes SCHEMA_FAILED.
adapt_to_schema(data, schema, resized, img) ==
    IF ~data.decodable
    THEN [ok |-> FALSE, error |-> WorkerError("DECODE_FAILED", "schema"), encodes |-> 0]
    ELSE IF resized.status = "other_exception"
    THEN [ok |-> FALSE, error |-> WorkerError("SCHEMA_FAILED", "schema"), encodes |-> 0]
    ELSE LET r == resize_exact(resized, schema.target_width, schema.target_height)
         IN  IF ~r.ok
             THEN [ok |-> FALSE, error |-> r.error, encodes |-> 0]
             ELSE LET c == compress_to_size(img, schema.target_dpi, schema.max_kb,
                                            schema.output_format, schema.quality)
                  IN  IF ~c.ok
                      THEN [ok |-> FALSE, error |-> c.error, encodes |-> c.encodes]
                      ELSE [ok |-> TRUE,
                            image_data |-> c.data,
                            final_width |-> schema.target_width,
                            final_height |-> schema.target_height,
                            final_dpi |-> schema.target_dpi,
                            final_size |-> c.data.len,
                            final_quality |-> c.quality,
                            actual_width |-> r.w,
                            actual_height |-> r.h,
                            encodes |-> c.encodes]

-----------------------------------------------------------------------------
(* Enhancement: src/worker/processors/enhancement.py                       *)

\* 0.75 in thousandths.
READABLE_QUALITY_THRESHOLD == 750

\* quality_score: Optional[float] is <<>> for None and <<s>> for a score s.
NoScore == <<>>

\* GUARD-001.
should_skip_enhancement_AtThreshold(options) ==
    IF options.quality_score = NoScore
    THEN FALSE
    ELSE IF options.quality_score[1] >= READABLE_QUALITY_THRESHOLD /\ options.is_readable
         THEN TRUE
         ELSE FALSE
should_skip_enhancement(options) ==
    IF options.quality_score = NoScore
    THEN FALSE
    ELSE IF options.quality_score[1] > READABLE_QUALITY_THRESHOLD /\ options.is_readable
         THEN TRUE
         ELSE FALSE

\* `if options.denoise and not skip_enhancement`
DenoiseRuns_IgnoringGuard(options, skip_enhancement) == options.denoise
DenoiseRuns(options, skip_enhancement) == options.denoise /\ ~skip_enhancement

\* `if options.normalize_color and not skip_enhancement`
ColorRuns_IgnoringGuard(options, skip_enhancement) == options.normalize_color
ColorRuns(options, skip_enhancement) == options.normalize_color /\ ~skip_enhancement

\* Any exception other than a WorkerError inside enhance_image's try block.
EnhanceFailed(skip_enhancement, calls) ==
    [ok |-> FALSE, error |-> WorkerError("ENHANCE_FAILED", "enhance"),
     skip_enhancement |-> skip_enhancement, calls |-> calls]

\* enhance_image(data, options).  `env` says how each image operator
\* behaves on this image:
\*   orientation  "corrected" | "unchanged" | "exception" (correct_orientation
\*                has no handler of its own)
\*   denoise      "applied" | "cv2_error" (caught, image unchanged) |
\*                "other_exception"
\*   white_balance "applied" | "failed" (auto_white_balance catches all)
\*   normalize    "applied" | "cv2_error" | "other_exception"
\*   encode_ok    whether cv2.imencode succeeds
\* `calls` lists the operators that were invoked; `skip_enhancement` is the
\* function's local of that name.
enhance_image(data, options, env) ==
    LET skip_enhancement == should_skip_enhancement(options)
    IN
    IF ~data.decodable
    THEN [ok |-> FALSE, error |-> WorkerError("DECODE_FAILED", "enhance"),
          skip_enhancement |-> skip_enhancement, calls |-> <<>>]
    ELSE
    LET runO == options.correct_orientation
        c1 == IF runO THEN <<"correct_orientation">> ELSE <<>>
    IN
    IF runO /\ env.orientation = "exception"
    THEN EnhanceFailed(skip_enhancement, c1)
    ELSE
    LET orientation_corrected == runO /\ env.orientation = "corrected"
        runD == DenoiseRuns(options, skip_enhancement)
        c2 == IF runD THEN Append(c1, "denoise") ELSE c1
    IN
    IF runD /\ env.denoise = "other_exception"
    THEN EnhanceFailed(skip_enhancement, c2)
    ELSE
    LET denoised == runD /\ env.denoise = "applied"
        runC == ColorRuns(options, skip_enhancement)
        c3 == IF runC THEN c2 \o <<"auto_white_balance", "normalize_color">> ELSE c2
    IN
    IF runC /\ env.normalize = "other_exception"
    THEN EnhanceFailed(skip_enhancement, c3)
    ELSE
    LET color_normalized == runC /\ env.normalize = "applied"
        balanced == runC /\ env.white_balance = "applied"
        c4 == Append(c3, "encode_image")
    IN
    IF ~env.encode_ok
    THEN EnhanceFailed(skip_enhancement, c4)
    ELSE [ok |-> TRUE,
          image_data |-> [kind |-> "enhanced", decodable |-> TRUE,
                          ops |-> (IF orientation_corrected THEN {"orientation"} ELSE {})
                                  \cup (IF denoised THEN {"denoise"} ELSE {})
                                  \cup (IF balanced THEN {"white_balance"} ELSE {})
                                  \cup (IF color_normalized THEN {"clahe"} ELSE {})],
          orientation_corrected |-> orientation_corrected,
          denoised |-> denoised,
          color_normalized |-> color_normalized,
          skip_enhancement |-> skip_enhancement,
          calls |-> c4]

\* How the image operators can behave on an image.
EnhanceEnvs == [orientation : {"corrected", "unchanged", "exception"},
                denoise : {"applied", "cv2_error", "other_exception"},
                white_balance : {"applied", "failed"},
                normalize : {"applied", "cv2_error", "other_exception"},
                encode_ok : BOOLEAN]

-----------------------------------------------------------------------------
(* OCR: src/worker/processors/ocr.py                                       *)

EmptyOCR == [text |-> "", confidence |-> 0, boxes |-> <<>>]

\* What the OCR capability does on one call: the engine fails to
\* initialise, inference raises, it finds no text, or it finds text with an
\* average confidence (thousandths).
Confidences == {400, 401, 500, 501, 749, 750, 850, 950}

OcrOutcomes ==
    {[engine |-> e, conf |-> 0] : e \in {"init_error", "inference_error", "no_text"}}
    \cup {[engine |-> "text", conf |-> c] : c \in Confidences}

\* extract_text: WorkerErrors (decode, engine initialisation) are re-raised,
\* any other exception yields the empty result.
extract_text(data, o) ==
    IF ~data.decodable
    THEN [raised |-> TRUE, error |-> WorkerError("DECODE_FAILED", "ocr"), result |-> EmptyOCR]
    ELSE IF o.engine = "init_error"
    THEN [raised |-> TRUE, error |-> WorkerError("OCR_FAILED", "ocr"), result |-> EmptyOCR]
    ELSE IF o.engine = "inference_error"
    THEN [raised |-> FALSE, error |-> None, result |-> EmptyOCR]
    ELSE IF o.engine = "no_text"
    THEN [raised |-> FALSE, error |-> None, result |-> EmptyOCR]
    ELSE [raised |-> FALSE, error |-> None,
          result |-> [text |-> data.kind, confidence |-> o.conf,
                      boxes |-> <<data.kind>>]]

\* extract_text_safe: (OCRResult, warning).  `raised` records whether an
\* exception left the function; `failed` whether the capability failed.
extract_text_safe_Propagating(data, o) ==
    LET r == extract_text(data, o)
    IN  IF r.raised
        THEN [result |-> EmptyOCR, warning |-> r.error.code, raised |-> TRUE,
              error |-> r.error, failed |-> TRUE]
        ELSE [result |-> r.result,
              warning |-> IF r.result.text = "" THEN "OCR returned no text"
                          ELSE IF r.result.confidence < 500 THEN "Low OCR confidence"
                          ELSE "",
              raised |-> FALSE, error |-> None,
              failed |-> (o.engine = "inference_error")]
extract_text_safe(data, o) ==
    LET r == extract_text(data, o)
    IN  IF r.raised
        THEN [result |-> EmptyOCR, warning |-> r.error.code, raised |-> FALSE,
              error |-> None, failed |-> TRUE]
        ELSE [result |-> r.result,
              warning |-> IF r.result.text = "" THEN "OCR returned no text"
                          ELSE IF r.result.confidence < 500 THEN "Low OCR confidence"
                          ELSE "",
              raised |-> FALSE, error |-> None,
              failed |-> (o.engine = "inference_error")]

-----------------------------------------------------------------------------
(* Metrics: src/worker/metrics.py                                          *)

\* get_execution_temperature(): `_execution_count += 1`, then
\* `"cold" if _execution_count == 1 else "warm"`; yields the new value of
\* the global and the tag.
get_execution_temperature_ColdTwice(count) ==
    [count |-> count + 1,
     temperature |-> IF count + 1 <= 2 THEN "cold" ELSE "warm"]
get_execution_temperature(count) ==
    [count |-> count + 1,
     temperature |-> IF count + 1 = 1 THEN "cold" ELSE "warm"]

\* reset_execution_count(): the new value of the global.
reset_execution_count == 0

\* DocumentCharacteristics(): the fields the model follows, at their defaults.
DocumentCharacteristics == [quality_score |-> 0, enhancement_skipped |-> FALSE]

NoCollector == [constructed |-> FALSE]

\* MetricsCollector.__init__ after get_execution_temperature() has returned
\* `temperature`.  _stages is a dict: a set of StageTiming entries with
\* distinct stage names.
MetricsCollector(temperature) ==
    [constructed |-> TRUE,
     execution_temperature |-> temperature,
     _stages |-> {},
     _characteristics |-> DocumentCharacteristics,
     _processing_path |-> "standard",
     _finalized |-> FALSE]

\* `self._stages[name] = StageTiming(...)`: the assignment record_stage makes
\* and the one the `finally` clause of stage() makes.
record_stage(c, name, cpu_seconds) ==
    [c EXCEPT !._stages = {e \in c._stages : e.stage # name}
                          \cup {[stage |-> name, cpu_seconds |-> cpu_seconds]}]

\* set_characteristics(**kw): a keyword that is None leaves its field alone.
\* A keyword is <<>> for None and <<v>> for a value v.
set_characteristics(c, kw) ==
    [c EXCEPT !._characteristics =
        [quality_score |-> IF kw.quality_score # <<>>
                           THEN kw.quality_score[1]
                           ELSE c._characteristics.quality_score,
         enhancement_skipped |-> IF kw.enhancement_skipped # <<>>
                                 THEN kw.enhancement_skipped[1]
                                 ELSE c._characteristics.enhancement_skipped]]

set_processing_path(c, path) == [c EXCEPT !._processing_path = path]

\* `if self._finalized: raise RuntimeError(...)`
AlreadyFinalized_Never(c) == FALSE
AlreadyFinalized(c) == c._finalized

\* finalize(): raises, or marks the collector and returns ProcessingMetrics.
\* The record is handed self._stages and self._characteristics themselves
\* (references to the collector's dict and object, not copies); the path,
\* the tag and the totals are values.
finalize(c, total_cpu) ==
    IF AlreadyFinalized(c)
    THEN [outcome |-> "RuntimeError", collector |-> c, metrics |-> None]
    ELSE [outcome |-> "record",
          collector |-> [c EXCEPT !._finalized = TRUE],
          metrics |-> [execution_temperature |-> c.execution_temperature,
                       processing_path |-> c._processing_path,
                       total_cpu_seconds |-> total_cpu,
                       stages |-> [ref |-> "_stages"],
                       characteristics |-> [ref |-> "_characteristics"]]]

\* What a ProcessingMetrics record shows when it is read: its reference
\* fields are followed to the objects they name.
ReadMetrics(m) ==
    [execution_temperature |-> m.execution_temperature,
     processing_path |-> m.processing_path,
     total_cpu_seconds |-> m.total_cpu_seconds,
     stages |-> collector._stages,
     characteristics |-> collector._characteristics]

\* One thread inside MetricsCollector.__init__.
IdleThread == [pc |-> "start", tmp |-> 0, temperature |-> ""]

\* process_job_instrumented not running.
NoRun == [pc |-> "idle"]

MtBlank ==
    /\ execution_count = 0 /\ collector = NoCollector /\ records = <<>>
    /\ finalize_log = <<>> /\ history = <<>>

MtIdle == MtBlank /\ th = <<>> /\ ins = NoRun

-----------------------------------------------------------------------------
(* The job API: src/app/api/db/client.py, routes/jobs.py, routes/webhooks.py *)

\* VALID_TRANSITIONS.get(state, set()): the allowed targets of a state.
VALID_TRANSITIONS_CompletedMayFail(state) == IF state = "pending" THEN {"processing", "failed"} ELSE IF state = "processing" THEN {"completed", "failed"} ELSE IF state = "completed" THEN {"failed"} ELSE {}
VALID_TRANSITIONS(state) == IF state = "pending" THEN {"processing", "failed"} ELSE IF state = "processing" THEN {"completed", "failed"} ELSE {}

TERMINAL_STATES == {"completed", "failed"}

\* The row of table jobs before create_job has inserted it.  camber_job_id
\* says whether the column is set.
NoRow == [exists |-> FALSE, status |-> "", camber_job_id |-> FALSE, error_details |-> "none", output_metadata |-> "none"]

\* The row create_job inserts: status pending.
InsertedRow == [exists |-> TRUE, status |-> "pending", camber_job_id |-> FALSE, error_details |-> "none", output_metadata |-> "none"]

\* `.eq("id", ...).eq("status", current_state)`: the rows the update of
\* transition_job_state matches.
OptimisticLock_Unchecked(row, current_state) == row.exists
OptimisticLock(row, current_state) == row.exists /\ row.status = current_state

\* update_data of transition_job_state applied to the row.  payload is
\* "none" for None and names the dict otherwise.
ApplyUpdate(row, new_state, payload, has_camber_job_id) ==
    [row EXCEPT !.status = new_state,
                !.camber_job_id = IF new_state = "processing" /\ has_camber_job_id THEN TRUE ELSE @,
                !.error_details = IF new_state = "failed" /\ payload # "none" THEN payload ELSE @,
                !.output_metadata = IF new_state = "completed" /\ payload # "none" THEN payload ELSE @]

\* The webhook's idempotency check: `current_status in TERMINAL_STATES`.
AlreadyTerminal_Never(current_status) == FALSE
AlreadyTerminal(current_status) == current_status \in TERMINAL_STATES

\* `new_state = "completed" if body.status == "success" else "failed"`
NewState(body_status) == IF body_status = "success" THEN "completed" ELSE "failed"

\* No job API request has been made.
ApiIdle == job_row = NoRow /\ status_log = <<>> /\ documents = 0 /\ zip_exists = FALSE /\ camber = "idle" /\ req = <<>>

-----------------------------------------------------------------------------
(* SpecCompress: adapt_to_schema applied to bounded inputs                 *)

\* An initial quality level far above the 1-100 scale: SchemaDefinition
\* accepts any integer, and only such a level makes the search interval
\* wide enough for the iteration cap to bind.
BigQuality == 4194304

Qualities == {10, 20, 21, 64, 85, 100, BigQuality}

MaxKbs == {1, 2}

Images == [base : {0, 8, 1024, 5000}, slope : {0, 16, 64},
           bumpAt : {52}, bump : {0, 5000}]

\* Encoded length is non-decreasing in the quality level.
Monotone(img) == img.bump = 0

Schemas == [target_width : {200}, target_height : {230}, target_dpi : {200},
            max_kb : MaxKbs, output_format : {"jpeg", "png"},
            quality : Qualities]

Resizes == {[status |-> "ok", w |-> 200, h |-> 230],
            [status |-> "ok", w |-> 199, h |-> 230],
            [status |-> "cv2_error", w |-> 0, h |-> 0],
            [status |-> "other_exception", w |-> 0, h |-> 0]}

\* Raw bytes as fetched: they decode as an image or they do not.
RawImages == {[kind |-> "raw", decodable |-> d, empty |-> FALSE, ops |-> {}] : d \in BOOLEAN}

\* A zero-length object: storage.download returns b"" unchanged.
EmptyBytes == [kind |-> "raw", decodable |-> FALSE, empty |-> TRUE, ops |-> {}]

\* What storage.download can return.
FetchedBytes == RawImages \cup {EmptyBytes}

\* assess_quality on bytes that are not an image.  cv2.imdecode returns
\* None for a non-empty buffer it cannot decode, and decode_image raises
\* DECODE_FAILED; on an empty buffer cv2.imdecode itself raises cv2.error
\* (its assertion !buf.empty()), which assess_quality's `except Exception`
\* turns into QUALITY_FAILED.
assess_quality_error(data) == IF data.empty THEN "QUALITY_FAILED" ELSE "DECODE_FAILED"

CzIdle == cz_input = None /\ cz_result = None
EnIdle == en_input = None /\ en_result = None

\* The worker's variables before anything has run.
MainBlank ==
    /\ job_id = "null" /\ stdout = <<>> /\ exit_code = "none"
    /\ raised = NoRaise /\ warnings = <<>> /\ stages = <<>>
    /\ raw_data = None /\ quality_score = NoScore /\ pre_ocr = None
    /\ is_readable = FALSE /\ enhanced = None /\ post_ocr = None
    /\ rollback = None /\ final = None /\ schema_input = None
    /\ schema_result = None /\ uploads = {}

MainIdle == pc = "idle" /\ stdin = None /\ MainBlank

InitCompress ==
    /\ cz_input \in [data : RawImages,
                     schema : Schemas, resized : Resizes, img : Images]
    /\ cz_result = None
    /\ EnIdle
    /\ MainIdle
    /\ MtIdle
    /\ ApiIdle

ApplyAdapt ==
    /\ cz_result = None
    /\ cz_result' = adapt_to_schema(cz_input.data, cz_input.schema,
                                    cz_input.resized, cz_input.img)
    /\ UNCHANGED <<cz_input, enVars, mainVars, mtVars, apiVars>>

NextCompress == ApplyAdapt

SpecCompress == InitCompress /\ [][NextCompress]_vars

\* adapt_to_schema got as far as compress_to_size.
CompressReached ==
    /\ cz_result # None
    /\ cz_input.data.decodable
    /\ resize_exact(cz_input.resized, cz_input.schema.target_width,
                    cz_input.schema.target_height).ok

CzMaxBytes == cz_input.schema.max_kb * 1024

\* C2 (as claimed): every artifact returned by adapt_to_schema is strictly
\* smaller than the ceiling, len(bytes) < max_kb * 1024.
C2_ArtifactStrictlyBelowCeiling ==
    (cz_result # None /\ cz_result.ok) => cz_result.final_size < CzMaxBytes

\* C3: compress_to_size makes at most 22 encode attempts, and ends either
\* with an encoding or with SIZE_EXCEEDED.
C3_AtMost22Encodes ==
    CompressReached =>
        /\ cz_result.encodes >= 1
        /\ cz_result.encodes <= 22
        /\ (cz_result.ok \/ cz_result.error.code = "SIZE_EXCEEDED")

\* C3 witness: a run in which the iteration cap binds, using all 22 encodes.
C3_Witness ==
    /\ CompressReached
    /\ cz_result.encodes = 22
    /\ ~cz_result.ok

\* The quality levels of [20, initial_quality] that are examined for a fit.
\* Above the 1-100 scale only the ends of the interval are listed: for a
\* length that is non-decreasing in the level, some level of the interval
\* fits exactly when one of the listed levels does (the lowest is listed).
IntervalLevels(initial_quality) ==
    IF initial_quality <= 100
    THEN MIN_JPEG_QUALITY .. initial_quality
    ELSE (MIN_JPEG_QUALITY .. 100) \cup {initial_quality}

SomeLevelFits ==
    \E q \in IntervalLevels(cz_input.schema.quality) :
        Fits(encode_with_dpi(cz_input.img, cz_input.schema.target_dpi,
                             cz_input.schema.output_format, q), CzMaxBytes)

\* C4 (as claimed): for a length non-decreasing in the quality level,
\* SIZE_EXCEEDED is raised iff no level of [20, initial_quality] fits; a
\* fitting encoding is returned otherwise; SIZE_EXCEEDED carries stage
\* schema, retryable false and no artifact.
C4_SizeExceededIffNoLevelFits ==
    (CompressReached /\ Monotone(cz_input.img)) =>
        /\ (~cz_result.ok) <=> ~SomeLevelFits
        /\ cz_result.ok => cz_result.final_size <= CzMaxBytes
        /\ (~cz_result.ok) =>
              /\ cz_result.error.code = "SIZE_EXCEEDED"
              /\ cz_result.error.stage = "schema"
              /\ cz_result.error.retryable = FALSE

\* C15 (as claimed): on success the artifact returned by adapt_to_schema has
\* width and height exactly the schema's target width and height and DPI
\* exactly the schema's target DPI; a resized image whose dimensions differ
\* from the target makes adapt_to_schema raise RESIZE_FAILED, with no
\* artifact.
C15_ExactDimensionsAndDpi ==
    cz_result # None =>
        /\ cz_result.ok =>
              /\ cz_result.actual_width = cz_input.schema.target_width
              /\ cz_result.actual_height = cz_input.schema.target_height
              /\ cz_result.final_width = cz_result.actual_width
              /\ cz_result.final_height = cz_result.actual_height
              /\ cz_result.image_data.dpi = cz_input.schema.target_dpi
              /\ cz_result.final_dpi = cz_result.image_data.dpi
        /\ (/\ cz_input.data.decodable
            /\ cz_input.resized.status = "ok"
            /\ \/ cz_input.resized.w # cz_input.schema.target_width
               \/ cz_input.resized.h # cz_input.schema.target_height)
              => (~cz_result.ok /\ cz_result.error.code = "RESIZE_FAILED")

-----------------------------------------------------------------------------
(* SpecEnhance: enhance_image applied to bounded inputs                    *)

\* Quality scores in thousandths, on both sides of the 0.75 threshold.
Scores == {600, 750, 751, 900}

EnhancementOptionsSet ==
    [correct_orientation : BOOLEAN, denoise : BOOLEAN, normalize_color : BOOLEAN,
     quality_score : {NoScore} \cup {<<q>> : q \in Scores},
     is_readable : BOOLEAN]

InitEnhance ==
    /\ en_input \in [data : RawImages, options : EnhancementOptionsSet,
                     env : EnhanceEnvs]
    /\ en_result = None
    /\ CzIdle
    /\ MainIdle
    /\ MtIdle
    /\ ApiIdle

ApplyEnhance ==
    /\ en_result = None
    /\ en_result' = enhance_image(en_input.data, en_input.options, en_input.env)
    /\ UNCHANGED <<en_input, czVars, mainVars, mtVars, apiVars>>

NextEnhance == ApplyEnhance

SpecEnhance == InitEnhance /\ [][NextEnhance]_vars

EnScore == en_input.options.quality_score

\* C5: should_skip_enhancement is true iff quality_score > 0.75 and
\* is_readable; false at exactly 0.75, true just above, false when the
\* image is not readable or there is no quality score.
C5_GuardSkipIff ==
    en_result # None =>
        /\ en_result.skip_enhancement <=>
              (EnScore # NoScore /\ EnScore[1] > 750 /\ en_input.options.is_readable)
        /\ (EnScore = <<750>> /\ en_input.options.is_readable)
              => ~en_result.skip_enhancement
        /\ (EnScore = <<751>> /\ en_input.options.is_readable)
              => en_result.skip_enhancement
        /\ (EnScore = NoScore \/ ~en_input.options.is_readable)
              => ~en_result.skip_enhancement

\* C5 witness: the guard evaluated at exactly the threshold on a readable image.
C5_Witness ==
    /\ en_result # None
    /\ EnScore = <<750>>
    /\ en_input.options.is_readable
    /\ ~en_result.skip_enhancement

Invoked(step) == \E k \in 1..Len(en_result.calls) : en_result.calls[k] = step

\* C8: when GUARD-SKIP is true, enhance_image invokes neither denoising nor
\* color normalization and reports both flags false whatever the options
\* say, while orientation correction is still invoked when enabled.
C8_SkipSuppressesDenoiseAndColor ==
    (en_result # None /\ en_result.skip_enhancement) =>
        /\ ~Invoked("denoise")
        /\ ~Invoked("auto_white_balance")
        /\ ~Invoked("normalize_color")
        /\ en_result.ok => (~en_result.denoised /\ ~en_result.color_normalized)
        /\ (en_input.data.decodable /\ en_input.options.correct_orientation)
              => Invoked("correct_orientation")

\* C8 witness: a guard-skipped call with denoise and normalize_color both
\* requested, in which orientation correction ran and corrected.
C8_Witness ==
    /\ en_result # None
    /\ en_result.skip_enhancement
    /\ en_input.options.denoise /\ en_input.options.normalize_color
    /\ en_result.ok
    /\ en_result.orientation_corrected

\* An image operator that enhance_image invoked failed internally.
StepFailed(step) ==
    /\ Invoked(step)
    /\ \/ step = "correct_orientation" /\ en_input.env.orientation = "exception"
       \/ step = "denoise" /\ en_input.env.denoise \in {"cv2_error", "other_exception"}
       \/ step = "normalize_color" /\ en_input.env.normalize \in {"cv2_error", "other_exception"}

\* C11 (as claimed): a failure inside orientation correction, denoising or
\* color normalization never makes enhance_image raise (so the run does not
\* end with a failure envelope and goes on to the candidate OCR stage): the
\* failing step leaves its 'applied' flag false and the result is returned.
C11_StepFailureNotFatal ==
    (en_result # None /\ en_input.data.decodable /\ en_input.env.encode_ok) =>
        /\ en_result.ok
        /\ StepFailed("correct_orientation") => ~en_result.orientation_corrected
        /\ StepFailed("denoise") => ~en_result.denoised
        /\ StepFailed("normalize_color") => ~en_result.color_normalized

-----------------------------------------------------------------------------
(* Spec: the worker, src/worker/worker.py                                  *)

\* 0.10 in thousandths.
OCR_ROLLBACK_THRESHOLD == 100

\* 0.80 in thousandths (processors/quality.py).
QUALITY_WARNING_THRESHOLD == 800

\* A JSON object on STDIN, by what validation looks at:
\*   job_id        "missing" | "malformed" (not a UUID) | "unencodable" (not
\*                 a UUID, holds a lone surrogate such as "\ud800") | "valid"
\*   user_id       "valid" | "invalid"
\*   portal_schema "ok" | "value_error" (a ValueError while parsing) |
\*                 "type_error" (any other exception, e.g. int(None))
\*   input         "empty" (missing or {}) | "no_mime" | "ok"
\*   has_url, has_path  artifact_url / raw_path non-blank
\*   storage       "ok" | "missing"
Payloads ==
    {p \in [job_id : {"missing", "malformed", "unencodable", "valid"},
            user_id : {"valid", "invalid"},
            portal_schema : {"ok", "value_error", "type_error"},
            input : {"empty", "no_mime", "ok"},
            has_url : BOOLEAN, has_path : BOOLEAN,
            storage : {"ok", "missing"}] :
        p.input = "empty" => (~p.has_url /\ ~p.has_path)}

BlankPayload == [job_id |-> "missing", user_id |-> "invalid",
                 portal_schema |-> "ok", input |-> "empty",
                 has_url |-> FALSE, has_path |-> FALSE, storage |-> "missing"]

Stdins ==
    {[kind |-> k, payload |-> BlankPayload] :
        k \in {"unreadable", "empty", "malformed", "not_object"}}
    \cup {[kind |-> "object", payload |-> p] : p \in Payloads}

\* An exception in flight: a WorkerError or any other Exception.  `echo`
\* says that its message repeats input text that STDOUT cannot encode.
Raise(e, echo) == [kind |-> "worker", code |-> e.code, stage |-> e.stage,
                   retryable |-> e.retryable, echo |-> echo]
OtherException == [kind |-> "exception", code |-> "", stage |-> "",
                   retryable |-> FALSE, echo |-> FALSE]
NotRaised == NoRaise

\* errors.py convenience constructors
payload_missing == WorkerError("PAYLOAD_MISSING", "init")
payload_invalid == WorkerError("PAYLOAD_INVALID", "init")
artifact_source_invalid == WorkerError("ARTIFACT_SOURCE_INVALID", "init")
internal_error == WorkerError("INTERNAL_ERROR", "init")

\* parse_payload
parse_payload(in) ==
    IF in.kind = "empty" THEN Raise(payload_missing, FALSE)
    ELSE IF in.kind \in {"malformed", "not_object"} THEN Raise(payload_invalid, FALSE)
    ELSE NotRaised

\* data.get("job_id") as main() keeps it for error reporting
RawJobId(in) == IF in.payload.job_id = "missing" THEN "null" ELSE in.payload.job_id

\* validate_artifact_source (storage/spaces_client.py)
validate_artifact_source_BothIsUrl(has_url, has_path) == IF ~has_url /\ ~has_path THEN "error" ELSE IF has_url THEN "url" ELSE "path"
validate_artifact_source(has_url, has_path) ==
    IF has_url /\ has_path THEN "error"
    ELSE IF ~has_url /\ ~has_path THEN "error"
    ELSE IF has_url THEN "url" ELSE "path"

\* validate_payload / JobPayload.from_dict: the checks in the order the code
\* makes them.  ArtifactSourceError becomes ARTIFACT_SOURCE_INVALID, any
\* other ValueError PAYLOAD_INVALID, anything else propagates as it is.
validate_payload(p) ==
    IF p.job_id = "missing" THEN Raise(payload_invalid, FALSE)
    ELSE IF p.job_id \in {"malformed", "unencodable"}
    THEN Raise(payload_invalid, p.job_id = "unencodable")
    ELSE IF p.user_id = "invalid" THEN Raise(payload_invalid, FALSE)
    ELSE IF p.portal_schema = "value_error" THEN Raise(payload_invalid, FALSE)
    ELSE IF p.portal_schema = "type_error" THEN OtherException
    ELSE IF p.input = "empty" THEN Raise(payload_invalid, FALSE)
    ELSE IF validate_artifact_source(p.has_url, p.has_path) = "error"
    THEN Raise(artifact_source_invalid, FALSE)
    ELSE IF p.input = "no_mime" THEN Raise(payload_invalid, FALSE)
    ELSE IF p.storage = "missing" THEN Raise(payload_invalid, FALSE)
    ELSE NotRaised

\* `is_readable = pre_ocr_confidence > 0.5`
IsReadable_AtHalf(pre_ocr_confidence) == pre_ocr_confidence >= 500
IsReadable(pre_ocr_confidence) == pre_ocr_confidence > 500

\* GUARD-002: `pre > 0 and post < pre - OCR_ROLLBACK_THRESHOLD`
ShouldRollback_Inclusive(pre_ocr_confidence, post_ocr_confidence) ==
    /\ pre_ocr_confidence > 0
    /\ post_ocr_confidence <= pre_ocr_confidence - OCR_ROLLBACK_THRESHOLD
ShouldRollback(pre_ocr_confidence, post_ocr_confidence) ==
    /\ pre_ocr_confidence > 0
    /\ post_ocr_confidence < pre_ocr_confidence - OCR_ROLLBACK_THRESHOLD

\* `final_image_data = raw_data if use_original else enhanced.image_data`
FinalImage_AlwaysEnhanced(use_original, raw, enhanced_data) == enhanced_data
FinalImage(use_original, raw, enhanced_data) ==
    IF use_original THEN raw ELSE enhanced_data

\* write_output: json.dumps(..., ensure_ascii=False) then print().  print()
\* raises UnicodeEncodeError, before writing anything, when the text holds
\* a character STDOUT cannot encode.
Encodable(envelope) == envelope.job_id # "unencodable" /\ ~envelope.echo

\* build_failure_result + FailureResult.to_dict
build_failure_result(jid, error) ==
    [status |-> "failed", job_id |-> jid, code |-> error.code,
     stage |-> error.stage, retryable |-> error.retryable, echo |-> error.echo]

\* The schema of the job and the images schema adaptation may be handed.
MainSchema == [target_width |-> 200, target_height |-> 230, target_dpi |-> 200,
               max_kb |-> 1, output_format |-> "jpeg", quality |-> 85]

MainImages == {i \in Images : i.slope = 16 /\ i.bump = 0}

Init ==
    /\ pc = "start"
    /\ stdin \in Stdins
    /\ MainBlank
    /\ CzIdle /\ EnIdle /\ MtIdle /\ ApiIdle

\* `raise`: control leaves process_job for main()'s except clauses.
Throw_Continuing(e) == raised' = e /\ pc' = "upload_master"
Throw(e) == raised' = e /\ pc' = "raised"

\* main(): read_stdin, parse_payload, job_id = data.get("job_id")
ReadAndParse ==
    /\ pc = "start"
    /\ IF stdin.kind = "unreadable"
       THEN Throw(OtherException) /\ UNCHANGED job_id
       ELSE LET r == parse_payload(stdin)
            IN  IF r.kind # "none"
                THEN Throw(r) /\ UNCHANGED job_id
                ELSE /\ job_id' = RawJobId(stdin)
                     /\ pc' = "parsed"
                     /\ UNCHANGED raised
    /\ UNCHANGED <<stdin, stdout, exit_code, warnings, stages, raw_data,
                   quality_score, pre_ocr, is_readable, enhanced, post_ocr,
                   rollback, final, schema_input, schema_result, uploads,
                   czVars, enVars, mtVars, apiVars>>

\* main(): payload = validate_payload(data); job_id = payload.job_id
Validate ==
    /\ pc = "parsed"
    /\ LET r == validate_payload(stdin.payload)
       IN  IF r.kind # "none"
           THEN Throw(r) /\ UNCHANGED job_id
           ELSE /\ job_id' = "valid"
                /\ pc' = "validated"
                /\ UNCHANGED raised
    /\ UNCHANGED <<stdin, stdout, exit_code, warnings, stages, raw_data,
                   quality_score, pre_ocr, is_readable, enhanced, post_ocr,
                   rollback, final, schema_input, schema_result, uploads,
                   czVars, enVars, mtVars, apiVars>>

\* process_job: create_client_from_spec raises ValueError when the
\* credentials are not in the environment.
CreateClient ==
    /\ pc = "validated"
    /\ \E credentials \in BOOLEAN :
          IF credentials
          THEN pc' = "fetch" /\ UNCHANGED raised
          ELSE Throw(OtherException)
    /\ UNCHANGED <<stdin, job_id, stdout, exit_code, warnings, stages, raw_data,
                   quality_score, pre_ocr, is_readable, enhanced, post_ocr,
                   rollback, final, schema_input, schema_result, uploads,
                   czVars, enVars, mtVars, apiVars>>

\* What storage.download can do, by artifact source.
FetchOutcomes(source) ==
    IF source = "url"
    THEN {"ok", "FETCH_TIMEOUT", "FETCH_FAILED", "exception"}
    ELSE {"ok", "ARTIFACT_NOT_FOUND", "ARTIFACT_ACCESS_DENIED", "FETCH_FAILED"}

\* Stage 1: raw_data = storage.download(...)
Fetch ==
    /\ pc = "fetch"
    /\ stages' = Append(stages, "fetch")
    /\ \E o \in FetchOutcomes(validate_artifact_source(stdin.payload.has_url,
                                                      stdin.payload.has_path)) :
          IF o = "ok"
          THEN /\ \E d \in FetchedBytes : raw_data' = d
               /\ pc' = "quality"
               /\ UNCHANGED raised
          ELSE IF o = "exception"
          THEN Throw(OtherException) /\ UNCHANGED raw_data
          ELSE Throw(Raise(WorkerError(o, "fetch"), FALSE)) /\ UNCHANGED raw_data
    /\ UNCHANGED <<stdin, job_id, stdout, exit_code, warnings,
                   quality_score, pre_ocr, is_readable, enhanced, post_ocr,
                   rollback, final, schema_input, schema_result, uploads,
                   czVars, enVars, mtVars, apiVars>>

\* Stage 2: quality_result = assess_quality(raw_data), and the low-quality
\* warning.  assess_quality raises DECODE_FAILED when the bytes do not
\* decode and QUALITY_FAILED on any other exception.
Quality ==
    /\ pc = "quality"
    /\ stages' = Append(stages, "quality")
    /\ IF ~raw_data.decodable
       THEN /\ Throw(Raise(WorkerError(assess_quality_error(raw_data), "quality"), FALSE))
            /\ UNCHANGED <<quality_score, warnings>>
       ELSE \/ /\ Throw(Raise(WorkerError("QUALITY_FAILED", "quality"), FALSE))
               /\ UNCHANGED <<quality_score, warnings>>
            \/ \E score \in Scores :
                 /\ quality_score' = <<score>>
                 /\ warnings' = IF score < QUALITY_WARNING_THRESHOLD
                                THEN Append(warnings, "Low quality score")
                                ELSE warnings
                 /\ pc' = "pre_ocr"
                 /\ UNCHANGED raised
    /\ UNCHANGED <<stdin, job_id, stdout, exit_code, raw_data,
                   pre_ocr, is_readable, enhanced, post_ocr,
                   rollback, final, schema_input, schema_result, uploads,
                   czVars, enVars, mtVars, apiVars>>

\* GUARD-002 baseline: pre_ocr_result, pre_ocr_warning =
\* extract_text_safe(raw_data); is_readable = pre_ocr_confidence > 0.5
PreOcr ==
    /\ pc = "pre_ocr"
    /\ stages' = Append(stages, "pre_ocr")
    /\ \E o \in OcrOutcomes :
         LET r == extract_text_safe(raw_data, o)
         IN  IF r.raised
             THEN /\ Throw(Raise(r.error, FALSE))
                  /\ UNCHANGED <<pre_ocr, is_readable>>
             ELSE /\ pre_ocr' = [result |-> r.result, warning |-> r.warning,
                                 failed |-> r.failed]
                  /\ is_readable' = IsReadable(r.result.confidence)
                  /\ pc' = "enhance"
                  /\ UNCHANGED raised
    /\ UNCHANGED <<stdin, job_id, stdout, exit_code, warnings, raw_data,
                   quality_score, enhanced, post_ocr,
                   rollback, final, schema_input, schema_result, uploads,
                   czVars, enVars, mtVars, apiVars>>

\* EnhancementOptions(quality_score=..., is_readable=...): the rest default.
MainOptions ==
    [correct_orientation |-> TRUE, denoise |-> TRUE, normalize_color |-> TRUE,
     quality_score |-> quality_score, is_readable |-> is_readable]

\* Stage 3: enhanced = enhance_image(raw_data, enhancement_options)
Enhance ==
    /\ pc = "enhance"
    /\ stages' = Append(stages, "enhance")
    /\ \E env \in EnhanceEnvs :
         LET r == enhance_image(raw_data, MainOptions, env)
         IN  IF r.ok
             THEN /\ enhanced' = r
                  /\ pc' = "ocr"
                  /\ UNCHANGED raised
             ELSE /\ Throw(Raise(r.error, FALSE))
                  /\ UNCHANGED enhanced
    /\ UNCHANGED <<stdin, job_id, stdout, exit_code, warnings, raw_data,
                   quality_score, pre_ocr, is_readable, post_ocr,
                   rollback, final, schema_input, schema_result, uploads,
                   czVars, enVars, mtVars, apiVars>>

\* Stage 4: ocr_result, ocr_warning = extract_text_safe(enhanced.image_data)
PostOcr ==
    /\ pc = "ocr"
    /\ stages' = Append(stages, "ocr")
    /\ \E o \in OcrOutcomes :
         LET r == extract_text_safe(enhanced.image_data, o)
         IN  IF r.raised
             THEN /\ Throw(Raise(r.error, FALSE))
                  /\ UNCHANGED post_ocr
             ELSE /\ post_ocr' = [result |-> r.result, warning |-> r.warning,
                                  failed |-> r.failed]
                  /\ pc' = "rollback"
                  /\ UNCHANGED raised
    /\ UNCHANGED <<stdin, job_id, stdout, exit_code, warnings, raw_data,
                   quality_score, pre_ocr, is_readable, enhanced,
                   rollback, final, schema_input, schema_result, uploads,
                   czVars, enVars, mtVars, apiVars>>

\* GUARD-002 rollback check, choice of the final image and confidence, and
\* the OCR warning.
RollbackCheck ==
    /\ pc = "rollback"
    /\ stages' = Append(stages, "rollback")
    /\ LET pre_ocr_confidence == pre_ocr.result.confidence
           post_ocr_confidence == post_ocr.result.confidence
           use_original == ShouldRollback(pre_ocr_confidence, post_ocr_confidence)
           ocr_result == IF use_original THEN pre_ocr.result ELSE post_ocr.result
           ocr_warning == IF use_original THEN pre_ocr.warning ELSE post_ocr.warning
           w1 == IF use_original
                 THEN Append(warnings, "Enhancement rollback")
                 ELSE warnings
       IN  /\ rollback' = [use_original |-> use_original,
                           ocr_result |-> ocr_result,
                           ocr_warning |-> ocr_warning]
           /\ final' = [image_data |-> FinalImage(use_original, raw_data,
                                                  enhanced.image_data),
                        ocr_confidence |-> IF use_original
                                           THEN pre_ocr_confidence
                                           ELSE post_ocr_confidence]
           /\ warnings' = IF ocr_warning # "" THEN Append(w1, ocr_warning) ELSE w1
    /\ pc' = "schema"
    /\ UNCHANGED <<stdin, job_id, stdout, exit_code, raised, raw_data,
                   quality_score, pre_ocr, is_readable, enhanced, post_ocr,
                   schema_input, schema_result, uploads, czVars, enVars, mtVars, apiVars>>

\* Stage 5: schema_result = adapt_to_schema(final_image_data, schema, ...)
Schema ==
    /\ pc = "schema"
    /\ stages' = Append(stages, "schema")
    /\ schema_input' = final.image_data
    /\ \E resized \in Resizes, img \in MainImages :
         LET r == adapt_to_schema(final.image_data, MainSchema, resized, img)
         IN  IF r.ok
             THEN /\ schema_result' = r
                  /\ pc' = "upload_master"
                  /\ UNCHANGED raised
             ELSE /\ Throw(Raise(r.error, FALSE))
                  /\ UNCHANGED schema_result
    /\ UNCHANGED <<stdin, job_id, stdout, exit_code, warnings, raw_data,
                   quality_score, pre_ocr, is_readable, enhanced, post_ocr,
                   rollback, final, uploads, czVars, enVars, mtVars, apiVars>>

\* Stage 6a: storage.upload_master: every exception becomes UPLOAD_FAILED.
UploadMaster ==
    /\ pc = "upload_master"
    /\ stages' = Append(stages, "upload_master")
    /\ \E put_ok \in BOOLEAN :
         IF put_ok
         THEN /\ uploads' = uploads \cup {"master"}
              /\ pc' = "upload_preview"
              /\ UNCHANGED raised
         ELSE /\ Throw(Raise(WorkerError("UPLOAD_FAILED", "upload"), FALSE))
              /\ UNCHANGED uploads
    /\ UNCHANGED <<stdin, job_id, stdout, exit_code, warnings, raw_data,
                   quality_score, pre_ocr, is_readable, enhanced, post_ocr,
                   rollback, final, schema_input, schema_result, czVars, enVars, mtVars, apiVars>>

\* Stage 6b: storage.upload_preview
UploadPreview ==
    /\ pc = "upload_preview"
    /\ stages' = Append(stages, "upload_preview")
    /\ \E put_ok \in BOOLEAN :
         IF put_ok
         THEN /\ uploads' = uploads \cup {"preview"}
              /\ pc' = "success"
              /\ UNCHANGED raised
         ELSE /\ Throw(Raise(WorkerError("UPLOAD_FAILED", "upload"), FALSE))
              /\ UNCHANGED uploads
    /\ UNCHANGED <<stdin, job_id, stdout, exit_code, warnings, raw_data,
                   quality_score, pre_ocr, is_readable, enhanced, post_ocr,
                   rollback, final, schema_input, schema_result, czVars, enVars, mtVars, apiVars>>

\* process_job returns SuccessResult; main(): write_output(result.to_dict())
\* inside the try block.
WriteSuccess ==
    /\ pc = "success"
    /\ LET envelope == [status |-> "success", job_id |-> job_id,
                        quality_score |-> quality_score[1],
                        warnings |-> warnings,
                        artifacts |-> uploads,
                        ocr_confidence |-> final.ocr_confidence,
                        echo |-> FALSE]
       IN  IF Encodable(envelope)
           THEN /\ stdout' = Append(stdout, envelope)
                /\ pc' = "return"
                /\ UNCHANGED raised
           ELSE Throw(OtherException) /\ UNCHANGED stdout
    /\ UNCHANGED <<stdin, job_id, exit_code, warnings, stages, raw_data,
                   quality_score, pre_ocr, is_readable, enhanced, post_ocr,
                   rollback, final, schema_input, schema_result, uploads,
                   czVars, enVars, mtVars, apiVars>>

\* write_output called from one of main()'s except clauses: an exception it
\* raises there is not handled by the sibling clause and leaves main().
WriteFromHandler(envelope) ==
    IF Encodable(envelope)
    THEN /\ stdout' = Append(stdout, envelope)
         /\ pc' = "return"
         /\ UNCHANGED exit_code
    ELSE /\ pc' = "exited"
         /\ exit_code' = "exception"
         /\ UNCHANGED stdout

\* main(): except WorkerError as e
HandleWorkerError ==
    /\ pc = "raised"
    /\ raised.kind = "worker"
    /\ WriteFromHandler(build_failure_result(job_id, raised))
    /\ UNCHANGED <<stdin, job_id, raised, warnings, stages, raw_data,
                   quality_score, pre_ocr, is_readable, enhanced, post_ocr,
                   rollback, final, schema_input, schema_result, uploads,
                   czVars, enVars, mtVars, apiVars>>

\* main(): except Exception as e -> internal_error(...)
HandleException ==
    /\ pc = "raised"
    /\ raised.kind = "exception"
    /\ WriteFromHandler(build_failure_result(job_id, Raise(internal_error, raised.echo)))
    /\ UNCHANGED <<stdin, job_id, raised, warnings, stages, raw_data,
                   quality_score, pre_ocr, is_readable, enhanced, post_ocr,
                   rollback, final, schema_input, schema_result, uploads,
                   czVars, enVars, mtVars, apiVars>>

\* main(): return 0
Return ==
    /\ pc = "return"
    /\ exit_code' = "0"
    /\ pc' = "exited"
    /\ UNCHANGED <<stdin, job_id, stdout, raised, warnings, stages, raw_data,
                   quality_score, pre_ocr, is_readable, enhanced, post_ocr,
                   rollback, final, schema_input, schema_result, uploads,
                   czVars, enVars, mtVars, apiVars>>

Next ==
    \/ ReadAndParse
    \/ Validate
    \/ CreateClient
    \/ Fetch
    \/ Quality
    \/ PreOcr
    \/ Enhance
    \/ PostOcr
    \/ RollbackCheck
    \/ Schema
    \/ UploadMaster
    \/ UploadPreview
    \/ WriteSuccess
    \/ HandleWorkerError
    \/ HandleException
    \/ Return

Spec == Init /\ [][Next]_vars

-----------------------------------------------------------------------------
(* Properties of the worker                                                *)

Started(stage) == \E k \in 1..Len(stages) : stages[k] = stage

Warned(w) == \E k \in 1..Len(warnings) : warnings[k] = w

Succeeded == pc = "exited" /\ Len(stdout) = 1 /\ stdout[1].status = "success"

\* C1 (as claimed): whatever is on STDIN, main() ends having written exactly
\* one envelope to STDOUT (success, or failure with code, stage and
\* retryable) and returns exit code 0; no exception escapes main().
C1_ExactlyOneEnvelopeExitZero ==
    pc = "exited" =>
        /\ Len(stdout) = 1
        /\ stdout[1].status \in {"success", "failed"}
        /\ exit_code = "0"

PreConf == pre_ocr.result.confidence
PostConf == post_ocr.result.confidence

\* C6: the pipeline rolls back iff the candidate confidence is strictly
\* below the baseline confidence minus 0.10; a candidate exactly 0.10 below
\* the baseline does not roll back, any larger drop does.
C6_RollbackIffStrictDrop ==
    rollback # None =>
        /\ rollback.use_original <=> (PostConf < PreConf - 100)
        /\ (PostConf = PreConf - 100) => ~rollback.use_original
        /\ (PostConf = PreConf - 101) => rollback.use_original

\* C6 witness: a candidate exactly 0.10 below a positive baseline, kept.
C6_Witness ==
    /\ rollback # None
    /\ PreConf = 850
    /\ PostConf = 750
    /\ ~rollback.use_original

\* C7: when rollback fires, schema adaptation is handed the original bytes,
\* the reported ocr_confidence is the baseline's, the baseline observation
\* replaces the candidate and a rollback warning is recorded; otherwise
\* schema adaptation is handed the enhanced image and the reported
\* confidence is the candidate's.
C7_RollbackCarriesOriginal ==
    /\ Started("schema") =>
         IF rollback.use_original
         THEN /\ schema_input = raw_data
              /\ final.ocr_confidence = PreConf
              /\ rollback.ocr_result = pre_ocr.result
              /\ Warned("Enhancement rollback")
         ELSE /\ schema_input = enhanced.image_data
              /\ final.ocr_confidence = PostConf
              /\ rollback.ocr_result = post_ocr.result
              /\ ~Warned("Enhancement rollback")
    /\ Succeeded =>
         /\ stdout[1].ocr_confidence =
               (IF rollback.use_original THEN PreConf ELSE PostConf)
         /\ stdout[1].warnings = warnings

\* C7 witness: a successful run in which rollback fired.
C7_Witness ==
    /\ Succeeded
    /\ rollback.use_original
    /\ schema_input.kind = "raw"

\* C9: is_readable iff the baseline OCR confidence is > 0.5; a failed
\* baseline pass yields the empty observation, is_readable false and no
\* GUARD-SKIP, whatever the quality score.
C9_ReadableIffAboveHalf ==
    pre_ocr # None =>
        /\ is_readable <=> (PreConf > 500)
        /\ pre_ocr.failed =>
              /\ pre_ocr.result = EmptyOCR
              /\ ~is_readable
              /\ ~should_skip_enhancement(MainOptions)
              /\ enhanced # None => ~enhanced.skip_enhancement

\* C9 witness: the baseline pass failed on a high-quality image and the
\* full enhancement ran.
C9_Witness ==
    /\ pre_ocr # None
    /\ pre_ocr.failed
    /\ quality_score = <<900>>
    /\ enhanced # None
    /\ enhanced.denoised

OcrCodes == {"OCR_FAILED", "OCR_TIMEOUT", "OCR_NO_TEXT"}

\* C10: a failing OCR pass hands its caller the empty observation instead
\* of an exception and the run goes on: after the baseline pass enhancement
\* is started, after the candidate pass schema adaptation is started, and
\* no failure envelope comes from the OCR stage.
C10_OcrFailureNotFatal ==
    /\ (pre_ocr # None /\ pre_ocr.failed) => pre_ocr.result = EmptyOCR
    /\ (post_ocr # None /\ post_ocr.failed) => post_ocr.result = EmptyOCR
    /\ raised.kind # "none" => (raised.stage # "ocr" /\ raised.code \notin OcrCodes)
    /\ pc \in {"raised", "return", "exited"} =>
          /\ Started("pre_ocr") => Started("enhance")
          /\ Started("ocr") => Started("schema")
    /\ \A k \in 1..Len(stdout) :
          stdout[k].status = "failed" =>
              (stdout[k].stage # "ocr" /\ stdout[k].code \notin OcrCodes)

\* C10 witness: both OCR passes failed and the run still succeeded.
C10_Witness ==
    /\ Succeeded
    /\ pre_ocr.failed
    /\ post_ocr.failed
    /\ final.ocr_confidence = 0

\* The ProcessingStage (errors.py) to which each step of process_job belongs.
StageOf(step) ==
    CASE step = "fetch" -> "fetch"
      [] step = "quality" -> "quality"
      [] step \in {"pre_ocr", "ocr", "rollback"} -> "ocr"
      [] step = "enhance" -> "enhance"
      [] step = "schema" -> "schema"
      [] OTHER -> "upload"

\* An exception that is not a WorkerError left the stage that was running.
UnstructuredInStage ==
    /\ raised.kind = "exception"
    /\ Len(stages) > 0

\* C12 (as claimed): an exception other than a WorkerError raised while a
\* pipeline stage runs yields a failure envelope with code INTERNAL_ERROR
\* whose stage field names the stage in which the exception occurred.
C12_InternalErrorNamesStage ==
    (UnstructuredInStage /\ Len(stdout) = 1) =>
        /\ stdout[1].status = "failed"
        /\ stdout[1].code = "INTERNAL_ERROR"
        /\ stdout[1].stage = StageOf(stages[Len(stages)])

\* The steps of process_job in the order of its source text.
STAGE_ORDER ==
    <<"fetch", "quality", "pre_ocr", "enhance", "ocr", "rollback", "schema",
      "upload_master", "upload_preview">>

IsPrefix(s, t) == Len(s) <= Len(t) /\ \A k \in 1..Len(s) : s[k] = t[k]

\* Every stage that has started found the result of the stage before it.
PreviousCompleted ==
    /\ Started("quality") => raw_data # None
    /\ Started("pre_ocr") => quality_score # NoScore
    /\ Started("enhance") => pre_ocr # None
    /\ Started("ocr") => enhanced # None
    /\ Started("rollback") => post_ocr # None
    /\ Started("schema") => (rollback # None /\ final # None)
    /\ Started("upload_master") => schema_result # None
    /\ Started("upload_preview") => "master" \in uploads

C14_FailureLeavesNoArtifact ==
    \A k \in 1..Len(stdout) :
        stdout[k].status = "failed" => uploads = {}

-----------------------------------------------------------------------------
(* SpecMetrics: one thread using MetricsCollector, src/worker/metrics.py   *)

MaxCollectors == 3
MaxResets == 2
MaxFinalizeCalls == 3

StageNames == {"fetch", "ocr"}

\* CPU seconds a caller hands to record_stage, and what the timer of
\* stage() measures.
Timings == {1, 2}
MeasuredTimings == {1}

\* Keyword arguments of a set_characteristics call.
CharacteristicsKw ==
    [quality_score : {<<>>, <<900>>},
     enhancement_skipped : {<<>>, <<TRUE>>, <<FALSE>>}]

Count(seq, x) == Cardinality({k \in 1..Len(seq) : seq[k] = x})

InitMetrics ==
    /\ MtBlank /\ th = <<>> /\ ins = NoRun /\ ApiIdle
    /\ CzIdle /\ EnIdle /\ MainIdle

\* collector = MetricsCollector(job_id); the collector of the job before
\* is no longer referenced.
Construct ==
    /\ Len(history) - Count(history, "reset") < MaxCollectors
    /\ LET r == get_execution_temperature(execution_count)
       IN  /\ execution_count' = r.count
           /\ collector' = MetricsCollector(r.temperature)
           /\ history' = Append(history, r.temperature)
    /\ records' = <<>>
    /\ finalize_log' = <<>>
    /\ UNCHANGED <<th, ins, czVars, enVars, mainVars, apiVars>>

ResetExecutionCount ==
    /\ Count(history, "reset") < MaxResets
    /\ execution_count' = reset_execution_count
    /\ history' = Append(history, "reset")
    /\ UNCHANGED <<collector, records, finalize_log, th, ins,
                   czVars, enVars, mainVars, apiVars>>

\* `with collector.stage(name): ...`: the timing is stored when the block
\* is left, whether it raised or not.
Stage ==
    /\ collector.constructed
    /\ \E name \in StageNames, cpu \in MeasuredTimings :
          collector' = record_stage(collector, name, cpu)
    /\ UNCHANGED <<execution_count, records, finalize_log, history, th, ins,
                   czVars, enVars, mainVars, apiVars>>

RecordStage ==
    /\ collector.constructed
    /\ \E name \in StageNames, cpu \in Timings :
          collector' = record_stage(collector, name, cpu)
    /\ UNCHANGED <<execution_count, records, finalize_log, history, th, ins,
                   czVars, enVars, mainVars, apiVars>>

SetCharacteristics ==
    /\ collector.constructed
    /\ \E kw \in CharacteristicsKw :
          collector' = set_characteristics(collector, kw)
    /\ UNCHANGED <<execution_count, records, finalize_log, history, th, ins,
                   czVars, enVars, mainVars, apiVars>>

SetProcessingPath ==
    /\ collector.constructed
    /\ \E path \in {"fast", "standard"} :
          collector' = set_processing_path(collector, path)
    /\ UNCHANGED <<execution_count, records, finalize_log, history, th, ins,
                   czVars, enVars, mainVars, apiVars>>

\* metrics = collector.finalize().  Each returned record is kept together
\* with what it showed when finalize() returned it.
Finalize ==
    /\ collector.constructed
    /\ Len(finalize_log) < MaxFinalizeCalls
    /\ LET r == finalize(collector, 1)
       IN  /\ collector' = r.collector
           /\ finalize_log' = Append(finalize_log, r.outcome)
           /\ records' = IF r.outcome = "record"
                         THEN Append(records,
                                     [metrics |-> r.metrics,
                                      returned |-> [execution_temperature |-> r.metrics.execution_temperature,
                                                    processing_path |-> r.metrics.processing_path,
                                                    total_cpu_seconds |-> r.metrics.total_cpu_seconds,
                                                    stages |-> collector._stages,
                                                    characteristics |-> collector._characteristics]])
                         ELSE records
    /\ UNCHANGED <<execution_count, history, th, ins, czVars, enVars, mainVars, apiVars>>

NextMetrics ==
    \/ Construct
    \/ ResetExecutionCount
    \/ Stage
    \/ RecordStage
    \/ SetCharacteristics
    \/ SetProcessingPath
    \/ Finalize

SpecMetrics == InitMetrics /\ [][NextMetrics]_vars

\* C17: the first collector constructed since process start or since the
\* last reset_execution_count is tagged cold and every later one warm; the
\* tag of a collector stays what it was at construction; after a reset the
\* next collector constructed is cold again.
C17_FirstColdThenWarm ==
    /\ \A k \in 1..Len(history) :
          history[k] # "reset" =>
              (history[k] = "cold" <=> (k = 1 \/ history[k - 1] = "reset"))
    /\ collector.constructed =>
          \E k \in 1..Len(history) :
              /\ history[k] = collector.execution_temperature
              /\ \A j \in (k + 1)..Len(history) : history[j] = "reset"

\* C17 witness: cold, warm, a reset, cold again, and the live collector has
\* been used and finalized since.
C17_Witness ==
    /\ history = <<"cold", "warm", "reset", "cold">>
    /\ collector.execution_temperature = "cold"
    /\ collector._finalized
    /\ collector._stages # {}

\* C19: the first finalize() on a collector returns one record; every later
\* finalize() on it raises and returns none, so a collector yields at most
\* one record.
C19_FinalizeOnce ==
    /\ Len(records) <= 1
    /\ \A k \in 1..Len(finalize_log) :
          finalize_log[k] = (IF k = 1 THEN "record" ELSE "RuntimeError")
    /\ Len(records) = (IF Len(finalize_log) >= 1 THEN 1 ELSE 0)

\* C19 witness: finalize() called three times on one collector.
C19_Witness ==
    /\ finalize_log = <<"record", "RuntimeError", "RuntimeError">>
    /\ Len(records) = 1

\* C20 (as claimed): the record finalize() returned is immutable: whatever
\* is called on the collector afterwards, the record's per-stage breakdown,
\* characteristics, path and totals stay what they were when it was returned.
C20_RecordImmutable ==
    \A k \in 1..Len(records) :
        ReadMetrics(records[k].metrics) = records[k].returned

-----------------------------------------------------------------------------
(* SpecThreads: threads of one process constructing MetricsCollectors      *)
(* concurrently.  get_execution_temperature takes no lock; it reads the     *)
(* global, stores the sum, and reads the global again for the comparison,  *)
(* and another thread may run between any two of these.                    *)

NumThreads == 3
Threads == 1..NumThreads

InitThreads ==
    /\ th = [t \in Threads |-> IdleThread]
    /\ MtBlank /\ ins = NoRun /\ ApiIdle
    /\ CzIdle /\ EnIdle /\ MainIdle

\* `_execution_count += 1`, first half: the global is read.
LoadCount(t) ==
    /\ th[t].pc = "start"
    /\ th' = [th EXCEPT ![t] = [@ EXCEPT !.pc = "loaded", !.tmp = execution_count]]
    /\ UNCHANGED <<execution_count, collector, records, finalize_log, history,
                   ins, czVars, enVars, mainVars, apiVars>>

\* `_execution_count += 1`, second half: the sum is stored.
StoreCount(t) ==
    /\ th[t].pc = "loaded"
    /\ execution_count' = th[t].tmp + 1
    /\ th' = [th EXCEPT ![t] = [@ EXCEPT !.pc = "stored"]]
    /\ UNCHANGED <<collector, records, finalize_log, history,
                   ins, czVars, enVars, mainVars, apiVars>>

\* `return "cold" if _execution_count == 1 else "warm"` and the rest of
\* MetricsCollector.__init__.
ReadTemperature(t) ==
    /\ th[t].pc = "stored"
    /\ th' = [th EXCEPT ![t] =
                [@ EXCEPT !.pc = "done",
                          !.temperature = IF execution_count = 1
                                          THEN "cold" ELSE "warm"]]
    /\ UNCHANGED <<execution_count, collector, records, finalize_log, history,
                   ins, czVars, enVars, mainVars, apiVars>>

NextThreads ==
    \E t \in Threads : LoadCount(t) \/ StoreCount(t) \/ ReadTemperature(t)

SpecThreads == InitThreads /\ [][NextThreads]_vars

Constructed == {t \in Threads : th[t].pc = "done"}

-----------------------------------------------------------------------------
(* SpecInstrumented: process_job_instrumented,                             *)
(* src/worker/worker_instrumented.py                                       *)

\* 0.75 in thousandths.
FAST_PATH_QUALITY_THRESHOLD == 750

\* `if quality_result.score >= FAST_PATH_QUALITY_THRESHOLD and is_readable`
ProcessingPath(score, readable) ==
    IF score >= FAST_PATH_QUALITY_THRESHOLD /\ readable
    THEN "fast"
    ELSE "standard"

\* The locals of process_job_instrumented on entry.
InsStart ==
    [pc |-> "start", raw_data |-> None, quality_score |-> NoScore,
     pre_ocr |-> None, is_readable |-> FALSE, enhanced |-> None,
     post_ocr |-> None, use_original |-> FALSE, final_image_data |-> None,
     final_ocr_confidence |-> 0, schema_result |-> None, uploads |-> {},
     warnings |-> <<>>, error |-> NoRaise]

InitInstrumented ==
    /\ ins = InsStart
    /\ MtBlank /\ th = <<>> /\ ApiIdle
    /\ CzIdle /\ EnIdle /\ MainIdle

\* An exception leaves process_job_instrumented.
InsRaise(e) == [ins EXCEPT !.pc = "raised", !.error = e]

\* What `with collector.stage(name)` leaves in the collector: the timing is
\* stored whether the block raised or not.
Timed(name) == record_stage(collector, name, 1)

\* collector = MetricsCollector(payload.job_id); create_client_from_spec
InsConstruct ==
    /\ ins.pc = "start"
    /\ LET r == get_execution_temperature(execution_count)
       IN  /\ execution_count' = r.count
           /\ collector' = MetricsCollector(r.temperature)
           /\ history' = Append(history, r.temperature)
    /\ \E credentials \in BOOLEAN :
          ins' = IF credentials THEN [ins EXCEPT !.pc = "fetch"]
                 ELSE InsRaise(OtherException)
    /\ UNCHANGED <<records, finalize_log, th, czVars, enVars, mainVars, apiVars>>

\* Stage 1: FETCH
InsFetch ==
    /\ ins.pc = "fetch"
    /\ collector' = Timed("fetch")
    /\ \/ \E d \in FetchedBytes : ins' = [ins EXCEPT !.pc = "quality", !.raw_data = d]
       \/ \E code \in {"FETCH_TIMEOUT", "FETCH_FAILED"} :
             ins' = InsRaise(Raise(WorkerError(code, "fetch"), FALSE))
       \/ ins' = InsRaise(OtherException)
    /\ UNCHANGED <<execution_count, records, finalize_log, history, th,
                   czVars, enVars, mainVars, apiVars>>

\* Stage 2: QUALITY, set_characteristics(quality_score=...), the warning
InsQuality ==
    /\ ins.pc = "quality"
    /\ IF ~ins.raw_data.decodable
       THEN /\ ins' = InsRaise(Raise(WorkerError(assess_quality_error(ins.raw_data), "quality"), FALSE))
            /\ collector' = Timed("quality_scoring")
       ELSE \/ /\ ins' = InsRaise(Raise(WorkerError("QUALITY_FAILED", "quality"), FALSE))
               /\ collector' = Timed("quality_scoring")
            \/ \E score \in Scores :
                 /\ ins' = [ins EXCEPT !.pc = "pre_ocr",
                                       !.quality_score = <<score>>,
                                       !.warnings = IF score < QUALITY_WARNING_THRESHOLD
                                                    THEN Append(@, "Low quality score")
                                                    ELSE @]
                 /\ collector' = set_characteristics(Timed("quality_scoring"),
                                     [quality_score |-> <<score>>,
                                      enhancement_skipped |-> <<>>])
    /\ UNCHANGED <<execution_count, records, finalize_log, history, th,
                   czVars, enVars, mainVars, apiVars>>

\* Stage 3: PRE-OCR and is_readable
InsPreOcr ==
    /\ ins.pc = "pre_ocr"
    /\ collector' = Timed("pre_ocr")
    /\ \E o \in OcrOutcomes :
         LET r == extract_text_safe(ins.raw_data, o)
         IN  ins' = IF r.raised
                    THEN InsRaise(Raise(r.error, FALSE))
                    ELSE [ins EXCEPT !.pc = "path",
                                     !.pre_ocr = [result |-> r.result,
                                                  warning |-> r.warning,
                                                  failed |-> r.failed],
                                     !.is_readable = IsReadable(r.result.confidence)]
    /\ UNCHANGED <<execution_count, records, finalize_log, history, th,
                   czVars, enVars, mainVars, apiVars>>

\* Determine processing path (for metrics classification)
InsProcessingPath ==
    /\ ins.pc = "path"
    /\ collector' = set_processing_path(collector,
                        ProcessingPath(ins.quality_score[1], ins.is_readable))
    /\ ins' = [ins EXCEPT !.pc = "enhance"]
    /\ UNCHANGED <<execution_count, records, finalize_log, history, th,
                   czVars, enVars, mainVars, apiVars>>

\* Stage 4: ENHANCE, then `enhanced.skipped if hasattr(enhanced, 'skipped')
\* else False`: EnhancementResult has no attribute of that name.
InsEnhance ==
    /\ ins.pc = "enhance"
    /\ \E env \in EnhanceEnvs :
         LET options == [correct_orientation |-> TRUE, denoise |-> TRUE,
                         normalize_color |-> TRUE,
                         quality_score |-> ins.quality_score,
                         is_readable |-> ins.is_readable]
             r == enhance_image(ins.raw_data, options, env)
         IN  IF r.ok
             THEN /\ ins' = [ins EXCEPT !.pc = "ocr", !.enhanced = r]
                  /\ collector' = set_characteristics(Timed("enhancement"),
                                      [quality_score |-> <<>>,
                                       enhancement_skipped |-> <<FALSE>>])
             ELSE /\ ins' = InsRaise(Raise(r.error, FALSE))
                  /\ collector' = Timed("enhancement")
    /\ UNCHANGED <<execution_count, records, finalize_log, history, th,
                   czVars, enVars, mainVars, apiVars>>

\* Stage 5: OCR, the GUARD-002 rollback check and the final image
InsOcr ==
    /\ ins.pc = "ocr"
    /\ collector' = Timed("ocr")
    /\ \E o \in OcrOutcomes :
         LET r == extract_text_safe(ins.enhanced.image_data, o)
             pre_ocr_confidence == ins.pre_ocr.result.confidence
             post_ocr_confidence == r.result.confidence
             use_original == ShouldRollback(pre_ocr_confidence, post_ocr_confidence)
             ocr_warning == IF use_original THEN ins.pre_ocr.warning ELSE r.warning
             w1 == IF use_original
                   THEN Append(ins.warnings, "Enhancement rollback")
                   ELSE ins.warnings
         IN  ins' = IF r.raised
                    THEN InsRaise(Raise(r.error, FALSE))
                    ELSE [ins EXCEPT
                            !.pc = "schema",
                            !.post_ocr = [result |-> r.result, warning |-> r.warning,
                                          failed |-> r.failed],
                            !.use_original = use_original,
                            !.final_image_data =
                                FinalImage(use_original, ins.raw_data,
                                           ins.enhanced.image_data),
                            !.final_ocr_confidence =
                                IF use_original THEN pre_ocr_confidence
                                ELSE post_ocr_confidence,
                            !.warnings = IF ocr_warning # ""
                                         THEN Append(w1, ocr_warning) ELSE w1]
    /\ UNCHANGED <<execution_count, records, finalize_log, history, th,
                   czVars, enVars, mainVars, apiVars>>

\* Stage 6: SCHEMA
InsSchema ==
    /\ ins.pc = "schema"
    /\ collector' = Timed("schema_adaptation")
    /\ \E resized \in Resizes, img \in MainImages :
         LET r == adapt_to_schema(ins.final_image_data, MainSchema, resized, img)
         IN  ins' = IF r.ok
                    THEN [ins EXCEPT !.pc = "upload", !.schema_result = r]
                    ELSE InsRaise(Raise(r.error, FALSE))
    /\ UNCHANGED <<execution_count, records, finalize_log, history, th,
                   czVars, enVars, mainVars, apiVars>>

\* Stage 7: UPLOAD: upload_master, then upload_preview
InsUpload ==
    /\ ins.pc = "upload"
    /\ collector' = Timed("upload")
    /\ \E master_ok \in BOOLEAN, preview_ok \in BOOLEAN :
         ins' = IF ~master_ok
                THEN InsRaise(Raise(WorkerError("UPLOAD_FAILED", "upload"), FALSE))
                ELSE IF ~preview_ok
                THEN [InsRaise(Raise(WorkerError("UPLOAD_FAILED", "upload"), FALSE))
                        EXCEPT !.uploads = {"master"}]
                ELSE [ins EXCEPT !.pc = "finalize", !.uploads = {"master", "preview"}]
    /\ UNCHANGED <<execution_count, records, finalize_log, history, th,
                   czVars, enVars, mainVars, apiVars>>

\* processing_metrics = collector.finalize(); return result, processing_metrics
InsFinalize ==
    /\ ins.pc = "finalize"
    /\ LET r == finalize(collector, 1)
       IN  /\ collector' = r.collector
           /\ finalize_log' = Append(finalize_log, r.outcome)
           /\ records' = Append(records,
                                [metrics |-> r.metrics,
                                 returned |-> ReadMetrics(r.metrics)])
    /\ ins' = [ins EXCEPT !.pc = "returned"]
    /\ UNCHANGED <<execution_count, history, th, czVars, enVars, mainVars, apiVars>>

NextInstrumented ==
    \/ InsConstruct
    \/ InsFetch
    \/ InsQuality
    \/ InsPreOcr
    \/ InsProcessingPath
    \/ InsEnhance
    \/ InsOcr
    \/ InsSchema
    \/ InsUpload
    \/ InsFinalize

SpecInstrumented == InitInstrumented /\ [][NextInstrumented]_vars

\* C16 (as claimed): the processing-path tag of a run is 'fast' exactly
\* when GUARD-SKIP triggers for that run (quality_score > 0.75 and
\* is_readable, denoise and color normalization suppressed), and
\* 'standard' otherwise.
C16_FastIffGuardSkip ==
    /\ ins.enhanced # None =>
          /\ collector._processing_path \in {"fast", "standard"}
          /\ collector._processing_path = "fast" <=> ins.enhanced.skip_enhancement
          /\ ins.enhanced.skip_enhancement <=>
                (ins.quality_score[1] > 750 /\ ins.is_readable)
    /\ \A k \in 1..Len(records) :
          records[k].metrics.processing_path = "fast"
              <=> ins.enhanced.skip_enhancement

-----------------------------------------------------------------------------
(* Further properties of the worker (Spec)                                 *)

\* The run's input is high quality and legible.
HighQualityLegible ==
    /\ rollback # None
    /\ quality_score[1] > 750
    /\ PreConf > 500

\* C21 (as claimed): a run whose input is high quality and legible
\* (quality_score > 0.75, baseline OCR confidence > 0.5) ends with the
\* decision skip_enhancement=true, denoised=false, color_normalized=false
\* and rolled_back=false: rollback does not fire on a guard-skipped run.
C21_GuardSkippedNeverRollsBack ==
    HighQualityLegible =>
        /\ enhanced.skip_enhancement
        /\ ~enhanced.denoised
        /\ ~enhanced.color_normalized
        /\ ~rollback.use_original

\* C21 (amended): such a run ends with skip_enhancement=true, denoised=false
\* and color_normalized=false; orientation correction and re-encoding still
\* run, and rolled_back is true exactly when the candidate confidence is
\* more than 0.10 below the baseline, so it is false when the candidate
\* reads as well as the baseline.
C21_GuardSkippedDecision ==
    HighQualityLegible =>
        /\ enhanced.skip_enhancement
        /\ ~enhanced.denoised
        /\ ~enhanced.color_normalized
        /\ rollback.use_original <=> (PostConf < PreConf - 100)
        /\ PostConf >= PreConf => ~rollback.use_original

\* C21 witness: quality 0.90, baseline and candidate confidence 0.95: the
\* guard skipped and nothing was rolled back, in a successful run.
C21_Witness ==
    /\ Succeeded
    /\ quality_score = <<900>>
    /\ PreConf = 950 /\ PostConf = 950
    /\ enhanced.skip_enhancement
    /\ ~rollback.use_original

\* C22: when the fetched bytes do not decode as an image, the run ends with
\* one failure envelope carrying DECODE_FAILED from the quality stage, not
\* retryable, and no OCR pass, enhancement, schema adaptation or upload
\* has happened.
Undecodable == raw_data # None /\ ~raw_data.decodable

C22_UndecodableIsDecodeFailed ==
    (Undecodable /\ pc = "exited") =>
        /\ Len(stdout) = 1
        /\ stdout[1].status = "failed"
        /\ stdout[1].code = "DECODE_FAILED"
        /\ stdout[1].stage = "quality"
        /\ ~stdout[1].retryable
        /\ pre_ocr = None
        /\ enhanced = None
        /\ post_ocr = None
        /\ schema_result = None
        /\ uploads = {}

\* C23: a payload names exactly one artifact source.  With both or neither
\* of artifact_url and raw_path given, the run ends with one failure
\* envelope of code ARTIFACT_SOURCE_INVALID at stage init and no stage has
\* started; with exactly one given the source is "url" or "path"
\* accordingly and that envelope is not produced.
SourceOf(p) == validate_artifact_source(p.has_url, p.has_path)

SourceInvalidEnvelope ==
    /\ Len(stdout) = 1
    /\ stdout[1].status = "failed"
    /\ stdout[1].code = "ARTIFACT_SOURCE_INVALID"
    /\ stdout[1].stage = "init"
    /\ stages = <<>>

SourceDecided(p) ==
    IF p.has_url = p.has_path
    THEN SourceInvalidEnvelope
    ELSE /\ SourceOf(p) = (IF p.has_url THEN "url" ELSE "path")
         /\ \A k \in 1..Len(stdout) :
               stdout[k].status = "failed" =>
                   stdout[k].code # "ARTIFACT_SOURCE_INVALID"

InputReached(p) ==
    /\ p.job_id = "valid"
    /\ p.user_id = "valid"
    /\ p.portal_schema = "ok"
    /\ p.input # "empty"

-----------------------------------------------------------------------------
(* Further properties of compress_to_size (SpecCompress)                   *)

CzEncode(q) ==
    encode_with_dpi(cz_input.img, cz_input.schema.target_dpi,
                    cz_input.schema.output_format, q)
CzFits(q) == CzEncode(q).len <= CzMaxBytes
InitialQuality == cz_input.schema.quality

\* The levels of [20, initial_quality] that can fit when the initial encode
\* does not: a JPEG of Images grows by at least 16 bytes a level and the
\* ceiling is at most 2 KB, so no level above 128 fits.
HighestLevelThatCanFit == (2 * 1024) \div 16

FittingLevels ==
    {q \in MIN_JPEG_QUALITY ..
              (IF InitialQuality < HighestLevelThatCanFit
               THEN InitialQuality ELSE HighestLevelThatCanFit) : CzFits(q)}

IsHighestFitting(q) ==
    /\ q \in FittingLevels
    /\ \A other \in FittingLevels : other <= q

C28_QualityNeverBelowFloor ==
    (CompressReached /\ cz_result.ok /\ InitialQuality >= 1 /\ InitialQuality <= 100) =>
        cz_result.final_quality >= MIN_JPEG_QUALITY

-----------------------------------------------------------------------------
(* Further properties of the instrumented pipeline (SpecInstrumented)      *)

\* C30: once the enhancement stage has returned, the characteristic
\* enhancement_skipped of the run's metrics is true exactly when GUARD-001
\* skipped the enhancement, in the collector and in the finalized record.
C30_SkippedCharacteristicIffGuardSkip ==
    ins.enhanced # None =>
        /\ collector._characteristics.enhancement_skipped
               <=> ins.enhanced.skip_enhancement
        /\ \A k \in 1..Len(records) :
               ReadMetrics(records[k].metrics).characteristics.enhancement_skipped
                   <=> ins.enhanced.skip_enhancement

-----------------------------------------------------------------------------
(* SpecApi: create_job, Camber webhooks and transition_job_state on one job *)

\* Webhook deliveries Camber makes for the job (a completion and replays).
NumWebhooks == 2

CreateJob == 0
Webhooks == 1 .. NumWebhooks
Handlers == {CreateJob} \cup Webhooks

\* Locals of a request handler.  result: the webhook body has a result.
\* current_status: the status the webhook handler read.  new_state: the
\* target of its transition_job_state call; t_current, t_version: the
\* status that call read and the number of status values the row had held
\* by then; t_outcome: how the call ended.  response: how the request
\* ended.  packaged, persisted: the handler wrote the ZIP, the document.
IdleRequest == [pc |-> "idle", result |-> FALSE, current_status |-> "", new_state |-> "", t_current |-> "", t_version |-> 0, t_outcome |-> "", response |-> "", packaged |-> FALSE, persisted |-> FALSE]

InitApi ==
    /\ job_row = NoRow /\ status_log = <<>> /\ documents = 0
    /\ zip_exists = FALSE /\ camber = "idle"
    /\ req = [h \in Handlers |-> IdleRequest]
    /\ CzIdle /\ EnIdle /\ MainIdle /\ MtIdle

\* The request of handler r ends with `response`.
Respond(r, response) == [r EXCEPT !.pc = "done", !.response = response, !.result = FALSE, !.t_current = ""]

\* The payload argument of the handler's transition_job_state call:
\* create_job passes the submission error, the webhook passes
\* _extract_error_info(body.result) for failed and None for completed.
Payload(h, new_state) == IF new_state # "failed" THEN "none" ELSE IF h = CreateJob THEN "submission" ELSE "worker"

\* create_job after transition_job_state: whatever the call did, the
\* failed-submission path raises InternalException and the other path
\* returns the CreateJobResponse (`except Exception` logs and goes on).
CreateFinish(r) == Respond(r, IF r.new_state = "failed" THEN "InternalException" ELSE "created")

\* webhook_camber step 5, after transition_job_state: a
\* StateTransitionException is acknowledged, any other exception
\* propagates; steps 6-7 follow for a success webhook that has a result.
WebhookAfterTransition(r) ==
    IF r.t_outcome = "StateTransitionException" THEN Respond(r, "acknowledged")
    ELSE IF r.t_outcome \in {"InternalException", "NotFoundException"} THEN Respond(r, r.t_outcome)
    ELSE IF r.new_state = "completed" /\ r.result THEN [r EXCEPT !.pc = "package", !.result = FALSE, !.t_current = ""]
    ELSE Respond(r, "acknowledged")

\* transition_job_state returns or raises in handler h, and the handler
\* goes on to its next database or storage operation.
TransitionEnds(h, outcome) ==
    LET r == [req[h] EXCEPT !.t_outcome = outcome]
    IN  [req EXCEPT ![h] = IF h = CreateJob THEN CreateFinish(r) ELSE WebhookAfterTransition(r)]

\* create_job steps 1-2: the portal schema lookup and the insert of the job
\* row with status pending.
CreateInsert ==
    /\ req[CreateJob].pc = "idle"
    /\ \/ /\ job_row' = InsertedRow
          /\ status_log' = <<"pending">>
          /\ req' = [req EXCEPT ![CreateJob].pc = "submit"]
       \/ /\ \E e \in {"SchemaNotFoundException", "InternalException"} :
                req' = [req EXCEPT ![CreateJob] = Respond(@, e)]
          /\ UNCHANGED <<job_row, status_log>>
    /\ UNCHANGED <<documents, zip_exists, camber, czVars, enVars, mainVars, mtVars>>

\* create_job steps 3-4: the upload URL, the input_metadata update (which
\* leaves the status column alone) and camber.submit_job; then the call of
\* transition_job_state, to processing, or to failed when the submission
\* raised CamberException.
CreateSubmit ==
    /\ req[CreateJob].pc = "submit"
    /\ \/ /\ camber' = "submitted"
          /\ req' = [req EXCEPT ![CreateJob].pc = "t_read",
                                ![CreateJob].new_state = "processing"]
       \/ /\ UNCHANGED camber
          /\ req' = [req EXCEPT ![CreateJob].pc = "t_read",
                                ![CreateJob].new_state = "failed"]
    /\ UNCHANGED <<job_row, status_log, documents, zip_exists, czVars, enVars, mainVars, mtVars>>

\* transition_job_state up to its update: the select of the current status
\* (APIError -> InternalException, no row -> NotFoundException), the
\* idempotent return, the validation against VALID_TRANSITIONS.
TransitionRead(h) ==
    /\ req[h].pc = "t_read"
    /\ \/ req' = TransitionEnds(h, "InternalException")
       \/ req' = IF ~job_row.exists
                 THEN TransitionEnds(h, "NotFoundException")
                 ELSE IF job_row.status = req[h].new_state /\ req[h].new_state \in TERMINAL_STATES
                 THEN TransitionEnds(h, "returned_unchanged")
                 ELSE IF req[h].new_state \notin VALID_TRANSITIONS(job_row.status)
                 THEN TransitionEnds(h, "StateTransitionException")
                 ELSE [req EXCEPT ![h].pc = "t_update",
                                  ![h].t_current = job_row.status,
                                  ![h].t_version = Len(status_log)]
    /\ UNCHANGED <<job_row, status_log, documents, zip_exists, camber, czVars, enVars, mainVars, mtVars>>

\* transition_job_state: the update under the optimistic lock on status.
\* No row matched -> StateTransitionException; APIError -> InternalException.
TransitionUpdate(h) ==
    /\ req[h].pc = "t_update"
    /\ \/ /\ req' = TransitionEnds(h, "InternalException")
          /\ UNCHANGED <<job_row, status_log>>
       \/ IF OptimisticLock(job_row, req[h].t_current)
          THEN /\ job_row' = ApplyUpdate(job_row, req[h].new_state,
                                         Payload(h, req[h].new_state),
                                         h = CreateJob)
               /\ status_log' = Append(status_log, req[h].new_state)
               /\ req' = TransitionEnds(h, "updated")
          ELSE /\ req' = TransitionEnds(h, "StateTransitionException")
               /\ UNCHANGED <<job_row, status_log>>
    /\ UNCHANGED <<documents, zip_exists, camber, czVars, enVars, mainVars, mtVars>>

\* Camber posts a webhook for the job it was given.  webhook_camber steps
\* 1-4: verify_webhook_secret; the request body (status is "success" or
\* "failed" by the request model's pattern; by_id: body.job_id is the job's
\* id); the job is looked up by id, else by camber_job_id; a job already
\* terminal is acknowledged at once; otherwise transition_job_state is
\* called.  Deliveries are numbered in the order they arrive.
WebhookReceive(w) ==
    /\ req[w].pc = "idle"
    /\ camber = "submitted"
    /\ \A earlier \in Webhooks : earlier < w => req[earlier].pc # "idle"
    /\ \E secret_ok \in BOOLEAN, status \in {"success", "failed"}, result \in BOOLEAN, by_id \in BOOLEAN :
          req' = [req EXCEPT ![w] =
                    IF ~secret_ok
                    THEN Respond(@, "WebhookAuthException")
                    ELSE IF ~(job_row.exists /\ (by_id \/ job_row.camber_job_id))
                    THEN Respond(@, "NotFoundException")
                    ELSE IF AlreadyTerminal(job_row.status)
                    THEN Respond([@ EXCEPT !.current_status = job_row.status], "acknowledged")
                    ELSE [@ EXCEPT !.pc = "t_read", !.result = result,
                                   !.current_status = job_row.status,
                                   !.new_state = NewState(status)]]
    /\ UNCHANGED <<job_row, status_log, documents, zip_exists, camber, czVars, enVars, mainVars, mtVars>>

\* webhook_camber step 6: packaging.package_job_output and the update of
\* output_metadata; either may raise, which is logged.
WebhookPackage(w) ==
    /\ req[w].pc = "package"
    /\ \/ /\ zip_exists' = TRUE
          /\ \/ job_row' = [job_row EXCEPT !.output_metadata = "packaged"]
             \/ UNCHANGED job_row
          /\ req' = [req EXCEPT ![w].pc = "persist", ![w].packaged = TRUE]
       \/ /\ UNCHANGED <<zip_exists, job_row>>
          /\ req' = [req EXCEPT ![w].pc = "persist"]
    /\ UNCHANGED <<status_log, documents, camber, czVars, enVars, mainVars, mtVars>>

\* webhook_camber step 7: _persist_worker_output inserts or updates the
\* job's document; an exception is logged.  Then the acknowledgement.
WebhookPersist(w) ==
    /\ req[w].pc = "persist"
    /\ \/ /\ documents' = documents + 1
          /\ req' = [req EXCEPT ![w] = Respond([@ EXCEPT !.persisted = TRUE], "acknowledged")]
       \/ /\ UNCHANGED documents
          /\ req' = [req EXCEPT ![w] = Respond(@, "acknowledged")]
    /\ UNCHANGED <<job_row, status_log, zip_exists, camber, czVars, enVars, mainVars, mtVars>>

\* One step of a request that has been received.
HandlerStep(h) ==
    \/ TransitionRead(h)
    \/ TransitionUpdate(h)
    \/ (h = CreateJob /\ CreateSubmit)
    \/ (h \in Webhooks /\ (WebhookPackage(h) \/ WebhookPersist(h)))

NextApi ==
    \/ CreateInsert
    \/ CreateSubmit
    \/ \E h \in Handlers : TransitionRead(h)
    \/ \E h \in Handlers : TransitionUpdate(h)
    \/ \E w \in Webhooks : WebhookReceive(w)
    \/ \E w \in Webhooks : WebhookPackage(w)
    \/ \E w \in Webhooks : WebhookPersist(w)

SpecApi == InitApi /\ [][NextApi]_vars

\* The server runs every handler of a received request to its end.
SpecApiFair == SpecApi /\ \A h \in Handlers : WF_vars(HandlerStep(h))

\* The transition table as the documentation states it.
TransitionTable ==
    {<<"pending", "processing">>, <<"pending", "failed">>,
     <<"processing", "completed">>, <<"processing", "failed">>}

\* Handler h's transition_job_state call has ended with `outcome`.
Returned(h, outcome) == req[h].t_outcome = outcome

\* C24: every change of the job's status follows the transition table
\* pending -> {processing, failed}, processing -> {completed, failed}; a
\* completed or failed job never changes status again; and a
\* transition_job_state call for the terminal state the job is already in
\* returns without modifying the job.
StatusStepFollowsTable ==
    (job_row.exists /\ job_row'.status # job_row.status) =>
        <<job_row.status, job_row'.status>> \in TransitionTable

TerminalStatusStays ==
    (job_row.exists /\ job_row.status \in {"completed", "failed"}) =>
        job_row'.status = job_row.status

RetransitionLeavesJobAlone ==
    \A h \in Handlers :
        (~Returned(h, "returned_unchanged") /\ Returned(h, "returned_unchanged")') =>
            /\ job_row' = job_row
            /\ status_log' = status_log
            /\ job_row.status = req[h].new_state
            /\ job_row.status \in {"completed", "failed"}

C24_StatusFollowsTransitionTable ==
    [][/\ StatusStepFollowsTable
       /\ TerminalStatusStays
       /\ RetransitionLeavesJobAlone]_vars

\* C24 witness: the job went pending, processing, completed, and a second
\* success webhook's transition_job_state call returned without an update.
C24_Witness ==
    /\ status_log = <<"pending", "processing", "completed">>
    /\ \E w \in Webhooks :
          Returned(w, "returned_unchanged") /\ req[w].pc = "done"

\* Handler h's transition_job_state call has executed its update (the
\* database answered): it had read the status when the row had held
\* t_version values.
UpdateExecuted(h) ==
    /\ req[h].t_version > 0
    /\ req[h].pc # "t_update"
    /\ req[h].t_outcome \in {"updated", "StateTransitionException"}

\* C25: of two transition_job_state calls that read the same current status
\* and both executed their update, at most one update is applied and the
\* other raises StateTransitionException; the status is only ever written
\* by a winning call, and the stored history follows the transition table.
C25_OptimisticLockOneWinner ==
    /\ \A h1, h2 \in Handlers :
          (/\ h1 # h2
           /\ UpdateExecuted(h1) /\ UpdateExecuted(h2)
           /\ req[h1].t_version = req[h2].t_version) =>
              \/ Returned(h1, "StateTransitionException")
              \/ Returned(h2, "StateTransitionException")
    /\ job_row.exists =>
          Len(status_log) = 1 + Cardinality({h \in Handlers : Returned(h, "updated")})
    /\ \A k \in 1 .. Len(status_log) - 1 :
          <<status_log[k], status_log[k + 1]>> \in TransitionTable

\* C25 witness: two calls read the same status, one updated, the other
\* raised StateTransitionException and its webhook was acknowledged.
C25_Witness ==
    \E h1, h2 \in Handlers :
        /\ h1 # h2
        /\ UpdateExecuted(h1) /\ UpdateExecuted(h2)
        /\ req[h1].t_version = req[h2].t_version
        /\ Returned(h1, "updated")
        /\ Returned(h2, "StateTransitionException")
        /\ req[h2].pc = "done"
        /\ req[h2].response = "acknowledged"

\* C26: a webhook received for a job that is already completed or failed
\* is acknowledged and does nothing else: no transition_job_state call, no
\* packaging, no document write.
C26_TerminalWebhookOnlyAcknowledged ==
    \A w \in Webhooks :
        req[w].current_status \in {"completed", "failed"} =>
            /\ req[w].pc = "done"
            /\ req[w].response = "acknowledged"
            /\ req[w].t_outcome = ""
            /\ req[w].t_version = 0
            /\ ~req[w].packaged
            /\ ~req[w].persisted

\* C26 witness: one webhook completed, packaged and persisted the job; a
\* later one found it completed and was acknowledged; one document write.
C26_Witness ==
    \E w1, w2 \in Webhooks :
        /\ req[w1].packaged /\ req[w1].persisted /\ req[w1].pc = "done"
        /\ req[w2].current_status = "completed"
        /\ req[w2].response = "acknowledged"
        /\ documents = 1
        /\ job_row.status = "completed"

\* C29: a job that Camber has, and whose pending -> processing transition
\* has not been applied when a success webhook for it is received, does
\* not stay in a non-terminal state: once that webhook has been
\* acknowledged the job eventually is completed (or, if a failure webhook
\* got there first, failed).
SuccessWebhookForPendingJob ==
    \E w \in Webhooks :
        /\ req[w].pc = "done"
        /\ req[w].response = "acknowledged"
        /\ req[w].current_status = "pending"
        /\ req[w].new_state = "completed"

C29_PendingJobRecoveredByWebhook ==
    SuccessWebhookForPendingJob ~> (job_row.status \in {"completed", "failed"})

=============================================================================
